---- MODULE Spec2Model ----
(***************************************************************************)
(* ESP-NOW telemetry pipeline: the serial collector (python/collect.py)    *)
(* and the analyzer (python/analyze.py).                                   *)
(*                                                                         *)
(* The collector object is driven either by its command (main) or as a     *)
(* library (its public methods called in any order).  Time is a discrete   *)
(* clock that advances only inside the blocking serial read.               *)
(***************************************************************************)
EXTENDS Integers, Sequences, FiniteSets, TLC

(* ----------------------------- bounds --------------------------------- *)
MaxTime == 3          \* the clock stops advancing here
ReadTimeout == 2      \* the serial read timeout, in clock ticks
MaxDuration == 2      \* largest --duration tried
MaxSamples == 2       \* largest --samples tried
MaxBuf == 2           \* longest buffer explored
MaxCalls == 2         \* collect_data calls on one collector object
MaxSeq == 0           \* sequence numbers 0..MaxSeq on the wire
MaxRows == 3          \* rows of a table handed to the analyzer
MaxFileSeq == 3       \* sequence numbers 0..MaxFileSeq in such a table

(* --------------------------- Python values ---------------------------- *)
\* Optional[number]: None is <<>>, a value v is <<v>>.
None == <<>>

Some(v) == <<v>>

Durations == {None} \cup {Some(d) : d \in 0..MaxDuration}

SampleLimits == {None} \cup {Some(n) : n \in 0..MaxSamples}

(* ------------------------------ the wire ------------------------------ *)
\* JSON objects a node (or noise on the line) can send.
Payloads ==
    {[seq |-> s, rssi |-> -50, lat_us |-> 1200] : s \in 0..MaxSeq}
    \cup {[error |-> "pong_timeout"]}
    \cup {[k \in {} |-> 0]}

\* What one readline() can give: nothing within the timeout, or a line of text.
Lines ==
    {[kind |-> k] : k \in {"timeout", "blank", "truncated",
                           "number", "string", "array", "null"}}
    \cup {[kind |-> "object", fields |-> p] : p \in Payloads}

\* line.strip() leaves nothing
StripsToEmpty(line) == line.kind \in {"timeout", "blank"}

\* json.loads(line): a dict, another JSON value, or JSONDecodeError
json_loads(line) ==
    CASE line.kind = "object" -> [tag |-> "dict", data |-> line.fields]
      [] line.kind = "truncated" -> [tag |-> "JSONDecodeError"]
      [] OTHER -> [tag |-> "value"]

\* data['timestamp'] = t on a dict
SetTimestamp(data, t) ==
    [k \in (DOMAIN data) \cup {"timestamp"} |->
        IF k = "timestamp" THEN t ELSE data[k]]

\* parse_json_line: None, the dict with its timestamp, or an uncaught TypeError
\* (item assignment on a JSON value that is no dict).
parse_json_line(line, t) ==
    IF StripsToEmpty(line) THEN [tag |-> "None"]
    ELSE LET v == json_loads(line) IN
         CASE v.tag = "dict" -> [tag |-> "dict", data |-> SetTimestamp(v.data, t)]
           [] v.tag = "JSONDecodeError" -> [tag |-> "None"]
           [] OTHER -> [tag |-> "TypeError"]

(* ------------------------------- state -------------------------------- *)
VARIABLES
    mainpc,        \* collector command: "off" | "lib" | "start" | "connected" | "collecting" | "exited"
    exit_code,     \* collector command's exit code, -1 while it runs
    port,          \* the device: "present" | "absent"
    serial_conn,   \* "none" | "open" | "closed"
    data_buffer,   \* self.data_buffer
    pc,            \* collect_data: "idle" | "check" | "read" | "count" | "completed" | "aborted" | "raised"
    reason,        \* why the last collect_data ended
    duration,      \* collect_data's arguments
    max_samples,
    start_time,
    sample_count,
    elapsed,       \* elapsed, computed after the loop
    returned,      \* the list the last collect_data returned
    calls,         \* collect_data calls so far
    base,          \* len(data_buffer) when the current call began
    arrived,       \* every Sample the decoder has produced, in arrival order
    save_result,   \* last save_to_csv result: "none" | "True" | "False"
    now,           \* the clock
    fs,            \* the file at the output path
    apc,           \* analyzer command: "start" | "loaded" | "exited"
    df,            \* the analyzer's self.df
    load_result,   \* load_data's result: "none" | "True" | "False"
    load_error,    \* the exception load_data caught and reported, or "none"
    stats,         \* basic_stats' result
    a_exit         \* analyzer command's exit code, -1 while it runs

cvars == <<mainpc, exit_code, port, serial_conn, data_buffer, pc, reason, duration,
           max_samples, start_time, sample_count, elapsed, returned, calls, base,
           arrived, save_result, now>>

avars == <<apc, df, load_result, load_error, stats, a_exit>>

vars == <<cvars, fs, avars>>

Running == pc \in {"check", "read", "count"}

NoFile == [kind |-> "missing"]

(* ----------------------------- TabularStore --------------------------- *)
\* A timestamp as the text of a CSV cell.
IsoText(t) == [text |-> "iso", t |-> t]

Columns(rows) == UNION {DOMAIN rows[i] : i \in 1..Len(rows)}

\* to_dataframe: the empty frame for an empty buffer, else one row per Sample,
\* the columns being the union of the Samples' keys.
to_dataframe(buffer) ==
    IF buffer = <<>> THEN [columns |-> {}, rows |-> <<>>]
    ELSE [columns |-> Columns(buffer), rows |-> buffer]

\* df.empty
Empty(frame) == frame.rows = <<>> \/ frame.columns = {}

\* One row as CSV text: the timestamp is written out as text, an absent field
\* is an empty cell.
CsvRow(row) ==
    [k \in DOMAIN row |-> IF k = "timestamp" THEN IsoText(row[k]) ELSE row[k]]

\* df.to_csv(filepath, index=False)
to_csv(frame) ==
    [kind |-> "csv", columns |-> frame.columns,
     rows |-> [i \in 1..Len(frame.rows) |-> CsvRow(frame.rows[i])]]

\* save_to_csv without its df.empty check.
save_to_csv_NoEmptyCheck(buffer, file) ==
    [file |-> to_csv(to_dataframe(buffer)), result |-> "True"]

\* save_to_csv: the file afterwards and the result
save_to_csv(buffer, file) ==
    LET frame == to_dataframe(buffer) IN
    IF Empty(frame) THEN [file |-> file, result |-> "False"]
    ELSE [file |-> to_csv(frame), result |-> "True"]

(* --------------------------- collect_data ----------------------------- *)
\* A limit compared with > instead of >=.
DurationReached_Late(d, el) == d # None /\ d[1] # 0 /\ el > d[1]

\* line 97: if duration and (time.time() - start_time) >= duration
DurationReached(d, el) == d # None /\ d[1] # 0 /\ el >= d[1]

SampleLimitReached_Late(m, count) == m # None /\ m[1] # 0 /\ count > m[1]

\* line 100: if max_samples and sample_count >= max_samples
SampleLimitReached(m, count) == m # None /\ m[1] # 0 /\ count >= m[1]

\* The Sample inserted at the front instead of appended.
BufferAppend_Front(buffer, sample) == <<sample>> \o buffer

\* self.data_buffer.append(parsed)
BufferAppend(buffer, sample) == Append(buffer, sample)

\* Only the Samples of the current call returned.
BufferCopy_ThisCall(buffer) == SubSeq(buffer, base + 1, Len(buffer))

\* return self.data_buffer.copy()
BufferCopy(buffer) == buffer

\* connect(): the connection afterwards
connect(conn) == IF port = "present" THEN "open" ELSE conn

\* disconnect()
disconnect(conn) == IF conn = "open" THEN "closed" ELSE conn

\* Lines 82-86: RuntimeError without an open connection, else the loop starts.
StartCollect(d, m) ==
    /\ calls < MaxCalls
    /\ calls' = calls + 1
    /\ duration' = d
    /\ max_samples' = m
    /\ base' = Len(data_buffer)
    /\ IF serial_conn # "open"
       THEN /\ pc' = "raised"
            /\ reason' = "RuntimeError"
            /\ UNCHANGED <<start_time, sample_count>>
       ELSE /\ pc' = "check"
            /\ reason' = "running"
            /\ start_time' = now
            /\ sample_count' = 0
    /\ UNCHANGED <<exit_code, port, serial_conn, data_buffer, elapsed, returned,
                   arrived, save_result, now, fs, avars>>

\* Lines 124-127: after the loop
Return(why, state) ==
    /\ pc' = state
    /\ reason' = why
    /\ elapsed' = now - start_time
    /\ returned' = BufferCopy(data_buffer)

\* Lines 96-102: the termination conditions, checked before the read
CheckTermination ==
    /\ pc = "check"
    /\ IF DurationReached(duration, now - start_time)
       THEN Return("duration", "completed")
       ELSE IF SampleLimitReached(max_samples, sample_count)
       THEN Return("samples", "completed")
       ELSE /\ pc' = "read"
            /\ UNCHANGED <<reason, elapsed, returned>>
    /\ UNCHANGED <<mainpc, exit_code, port, serial_conn, data_buffer, duration,
                   max_samples, start_time, sample_count, calls, base, arrived,
                   save_result, now, fs, avars>>

\* How long a readline() that returns `line` may block.
ReadDelays(line) ==
    IF line.kind = "timeout" THEN {ReadTimeout} ELSE 0..ReadTimeout

\* Lines 106-110: one readline(), decoded and, if a Sample, appended.  A read on
\* a device that is gone raises SerialException, which nothing in collect_data
\* catches; so does the decoder's TypeError.
ReadLine ==
    /\ pc = "read"
    /\ \/ /\ port = "absent"
          /\ pc' = "raised"
          /\ reason' = "SerialException"
          /\ UNCHANGED <<data_buffer, arrived, now>>
       \/ /\ port = "present"
          /\ \E line \in Lines : \E dt \in ReadDelays(line) :
                /\ now + dt <= MaxTime
                /\ now' = now + dt
                /\ LET parsed == parse_json_line(line, now') IN
                   CASE parsed.tag = "None" ->
                          /\ pc' = "check"
                          /\ UNCHANGED <<reason, data_buffer, arrived>>
                     [] parsed.tag = "TypeError" ->
                          /\ pc' = "raised"
                          /\ reason' = "TypeError"
                          /\ UNCHANGED <<data_buffer, arrived>>
                     [] OTHER ->
                          /\ Len(data_buffer) < MaxBuf
                          /\ data_buffer' = BufferAppend(data_buffer, parsed.data)
                          /\ arrived' = Append(arrived, parsed.data)
                          /\ pc' = "count"
                          /\ UNCHANGED reason
    /\ UNCHANGED <<mainpc, exit_code, port, serial_conn, duration, max_samples,
                   start_time, sample_count, elapsed, returned, calls, base,
                   save_result, fs, avars>>

\* Line 111: sample_count += 1
CountSample ==
    /\ pc = "count"
    /\ sample_count' = sample_count + 1
    /\ pc' = "check"
    /\ UNCHANGED <<mainpc, exit_code, port, serial_conn, data_buffer, reason,
                   duration, max_samples, start_time, elapsed, returned, calls,
                   base, arrived, save_result, now, fs, avars>>

\* Lines 121-127: KeyboardInterrupt anywhere in the loop
Interrupt ==
    /\ Running
    /\ Return("interrupt", "aborted")
    /\ UNCHANGED <<mainpc, exit_code, port, serial_conn, data_buffer, duration,
                   max_samples, start_time, sample_count, calls, base, arrived,
                   save_result, now, fs, avars>>

\* The device is unplugged (the line source fails permanently).
Unplug ==
    /\ port = "present"
    /\ mainpc \in {"start", "connected", "collecting", "lib"}
    /\ port' = "absent"
    /\ UNCHANGED <<mainpc, exit_code, serial_conn, data_buffer, pc, reason,
                   duration, max_samples, start_time, sample_count, elapsed,
                   returned, calls, base, arrived, save_result, now, fs, avars>>

(* ---------------------- the collector as a library -------------------- *)
\* collect_data's frame is gone once its caller has the result: its locals
\* (start_time, sample_count, elapsed, the arguments) no longer exist.
LibReturn ==
    /\ mainpc = "lib"
    /\ pc \in {"completed", "aborted", "raised"}
    /\ pc' = "idle"
    /\ reason' = "none"
    /\ duration' = None
    /\ max_samples' = None
    /\ start_time' = 0
    /\ sample_count' = 0
    /\ elapsed' = 0
    /\ UNCHANGED <<mainpc, exit_code, port, serial_conn, data_buffer, returned,
                   calls, base, arrived, save_result, now, fs, avars>>

LibConnect ==
    /\ mainpc = "lib"
    /\ pc = "idle"
    /\ serial_conn # "open"
    /\ serial_conn' = connect(serial_conn)
    /\ serial_conn' # serial_conn
    /\ UNCHANGED <<mainpc, exit_code, port, data_buffer, pc, reason, duration,
                   max_samples, start_time, sample_count, elapsed, returned,
                   calls, base, arrived, save_result, now, fs, avars>>

LibDisconnect ==
    /\ mainpc = "lib"
    /\ pc = "idle"
    /\ serial_conn' = disconnect(serial_conn)
    /\ serial_conn' # serial_conn
    /\ UNCHANGED <<mainpc, exit_code, port, data_buffer, pc, reason, duration,
                   max_samples, start_time, sample_count, elapsed, returned,
                   calls, base, arrived, save_result, now, fs, avars>>

LibCollect ==
    /\ mainpc = "lib"
    /\ pc = "idle"
    /\ \E d \in Durations : \E m \in SampleLimits : StartCollect(d, m)
    /\ UNCHANGED mainpc

LibSave ==
    /\ mainpc = "lib"
    /\ pc = "idle"
    /\ LET r == save_to_csv(data_buffer, fs) IN
       /\ fs' = r.file
       /\ save_result' = r.result
    /\ UNCHANGED <<mainpc, exit_code, port, serial_conn, data_buffer, pc, reason,
                   duration, max_samples, start_time, sample_count, elapsed,
                   returned, calls, base, arrived, now, avars>>

\* The script using the collector ends.
LibExit ==
    /\ mainpc = "lib"
    /\ pc = "idle"
    /\ mainpc' = "exited"
    /\ UNCHANGED <<exit_code, port, serial_conn, data_buffer, pc, reason, duration,
                   max_samples, start_time, sample_count, elapsed, returned,
                   calls, base, arrived, save_result, now, fs, avars>>

(* ------------------------- the collector command ---------------------- *)
\* Lines 189-190: connect, or sys.exit(1); the finally clause finds nothing open.
MainConnect ==
    /\ mainpc = "start"
    /\ serial_conn' = connect(serial_conn)
    /\ IF serial_conn' = "open"
       THEN /\ mainpc' = "connected"
            /\ UNCHANGED exit_code
       ELSE /\ mainpc' = "exited"
            /\ exit_code' = 1
    /\ UNCHANGED <<port, data_buffer, pc, reason, duration, max_samples,
                   start_time, sample_count, elapsed, returned, calls, base,
                   arrived, save_result, now, fs, avars>>

\* Line 192: collect_data(duration=args.duration, max_samples=args.samples)
MainCollect ==
    /\ mainpc = "connected"
    /\ \E d \in Durations : \E m \in SampleLimits : StartCollect(d, m)
    /\ mainpc' = "collecting"

\* Lines 194-206 and 211-212: collect_data returned; save if there is data,
\* disconnect, and leave with exit code 0.
MainFinish ==
    /\ mainpc = "collecting"
    /\ pc \in {"completed", "aborted"}
    /\ IF returned # <<>>
       THEN LET r == save_to_csv(data_buffer, fs) IN
            /\ fs' = r.file
            /\ save_result' = r.result
       ELSE UNCHANGED <<fs, save_result>>
    /\ serial_conn' = disconnect(serial_conn)
    /\ exit_code' = 0
    /\ mainpc' = "exited"
    /\ UNCHANGED <<port, data_buffer, pc, reason, duration, max_samples,
                   start_time, sample_count, elapsed, returned, calls, base,
                   arrived, now, avars>>

\* The except clause without its sys.exit(1).
MainFail_NoExit ==
    /\ mainpc = "collecting"
    /\ pc = "raised"
    /\ serial_conn' = disconnect(serial_conn)
    /\ exit_code' = 0
    /\ mainpc' = "exited"
    /\ UNCHANGED <<port, data_buffer, pc, reason, duration, max_samples,
                   start_time, sample_count, elapsed, returned, calls, base,
                   arrived, save_result, now, fs, avars>>

\* The except clause exporting what the buffer holds before it exits.
MainFail_SavesFirst ==
    /\ mainpc = "collecting"
    /\ pc = "raised"
    /\ LET r == save_to_csv(data_buffer, fs) IN
         /\ fs' = r.file
         /\ save_result' = r.result
    /\ serial_conn' = disconnect(serial_conn)
    /\ exit_code' = 1
    /\ mainpc' = "exited"
    /\ UNCHANGED <<port, data_buffer, pc, reason, duration, max_samples,
                   start_time, sample_count, elapsed, returned, calls, base,
                   arrived, now, avars>>

\* Lines 208-212: collect_data raised; report, exit code 1, disconnect.
MainFail ==
    /\ mainpc = "collecting"
    /\ pc = "raised"
    /\ serial_conn' = disconnect(serial_conn)
    /\ exit_code' = 1
    /\ mainpc' = "exited"
    /\ UNCHANGED <<port, data_buffer, pc, reason, duration, max_samples,
                   start_time, sample_count, elapsed, returned, calls, base,
                   arrived, save_result, now, fs, avars>>

(* ------------------------------ analyzer ------------------------------ *)
NoFrame == [kind |-> "None"]

\* A CSV cell in the timestamp column that is no time.
RawText == [text |-> "garbage"]

Parseable(cell) == cell.text = "iso"

\* pd.to_datetime on the timestamp column raises if a cell does not parse
TimestampsParse(rows) ==
    \A i \in 1..Len(rows) :
        "timestamp" \in DOMAIN rows[i] => Parseable(rows[i]["timestamp"])

\* One row with its timestamp text parsed back into a time.
ParsedRow(row) ==
    [k \in DOMAIN row |-> IF k = "timestamp" THEN row[k].t ELSE row[k]]

\* load_data: self.df afterwards, the result, and the error caught (if any)
load_data(file) ==
    CASE file.kind = "missing" ->
           [df |-> NoFrame, result |-> "False", error |-> "FileNotFoundError"]
      [] file.kind = "garbage" ->
           [df |-> NoFrame, result |-> "False", error |-> "ParserError"]
      [] OTHER ->
           LET frame == [kind |-> "frame", columns |-> file.columns,
                         rows |-> file.rows] IN
           IF "timestamp" \in file.columns
           THEN IF TimestampsParse(file.rows)
                THEN [df |-> [frame EXCEPT !.rows =
                                 [i \in 1..Len(file.rows) |-> ParsedRow(file.rows[i])]],
                      result |-> "True", error |-> "none"]
                ELSE [df |-> frame, result |-> "False", error |-> "ValueError"]
           ELSE [df |-> frame, result |-> "True", error |-> "none"]

\* series.dropna(): the non-missing values of one column, in row order
dropna(rows, col) ==
    LET RECURSIVE Go(_)
        Go(i) == IF i > Len(rows) THEN <<>>
                 ELSE IF col \in DOMAIN rows[i]
                      THEN <<rows[i][col]>> \o Go(i + 1)
                      ELSE Go(i + 1)
    IN Go(1)

RECURSIVE Insert(_, _)
Insert(x, sorted) ==
    IF sorted = <<>> THEN <<x>>
    ELSE IF x <= Head(sorted) THEN <<x>> \o sorted
    ELSE <<Head(sorted)>> \o Insert(x, Tail(sorted))

\* series.sort_values()
RECURSIVE sort_values(_)
sort_values(series) ==
    IF series = <<>> THEN <<>>
    ELSE Insert(Head(series), sort_values(Tail(series)))

\* series.max() and series.min() of a non-empty series
RECURSIVE SeriesMax(_)
SeriesMax(series) ==
    IF Len(series) = 1 THEN series[1]
    ELSE LET m == SeriesMax(Tail(series)) IN
         IF series[1] >= m THEN series[1] ELSE m

RECURSIVE SeriesMin(_)
SeriesMin(series) ==
    IF Len(series) = 1 THEN series[1]
    ELSE LET m == SeriesMin(Tail(series)) IN
         IF series[1] <= m THEN series[1] ELSE m

\* A percentage as an exact fraction num/den, den > 0.
Zero == [num |-> 0, den |-> 1]

\* The range taken without its + 1.
ExpectedPackets_NoPlusOne(seq_data) ==
    IF Len(seq_data) > 0 THEN SeriesMax(seq_data) - SeriesMin(seq_data) ELSE 0

\* Line 92: seq_data.max() - seq_data.min() + 1 if len(seq_data) > 0 else 0
ExpectedPackets(seq_data) ==
    IF Len(seq_data) > 0 THEN SeriesMax(seq_data) - SeriesMin(seq_data) + 1 ELSE 0

\* Line 93: len(seq_data)
ActualPackets(seq_data) == Len(seq_data)

\* Line 94: max(0, (expected - actual) / expected * 100) if expected > 0 else 0
LossPercent(expected_packets, actual_packets) ==
    IF expected_packets > 0
    THEN IF expected_packets - actual_packets > 0
         THEN [num |-> (expected_packets - actual_packets) * 100,
               den |-> expected_packets]
         ELSE Zero
    ELSE Zero

\* Lines 90-94: the packet loss of a frame (0 without a seq column)
packet_loss(frame) ==
    IF "seq" \in frame.columns
    THEN LET seq_data == sort_values(dropna(frame.rows, "seq")) IN
         LossPercent(ExpectedPackets(seq_data), ActualPackets(seq_data))
    ELSE Zero

\* Lines 61-63: (max - min) of the timestamp column; NaN when it holds no time
time_span(frame) ==
    IF "timestamp" \in frame.columns
    THEN LET ts == dropna(frame.rows, "timestamp") IN
         IF ts = <<>> THEN <<"nan">> ELSE Some(SeriesMax(ts) - SeriesMin(ts))
    ELSE None

\* Lines 66-87: the extremes of a column after dropna ({} without the column;
\* means, deviations and percentiles are not modelled)
column_stats(frame, col) ==
    IF col \in frame.columns
    THEN LET data == dropna(frame.rows, col) IN
         IF data = <<>> THEN [min |-> "nan", max |-> "nan"]
         ELSE [min |-> SeriesMin(data), max |-> SeriesMax(data)]
    ELSE [k \in {} |-> 0]

\* basic_stats on a loaded frame
basic_stats(frame) ==
    [total_samples |-> Len(frame.rows),
     time_span |-> time_span(frame),
     rssi_stats |-> column_stats(frame, "rssi"),
     latency_stats |-> column_stats(frame, "lat_us"),
     packet_loss |-> packet_loss(frame)]

NoStats == [kind |-> "none"]

\* The analyzer command runs on its own or after the collecting process ended.
AnalyzerMayRun == mainpc \in {"off", "exited"}

\* Lines 217-221: load_data, and sys.exit(1) if it failed
AnalyzerLoad ==
    /\ apc = "start"
    /\ AnalyzerMayRun
    /\ LET r == load_data(fs) IN
       /\ df' = r.df
       /\ load_result' = r.result
       /\ load_error' = r.error
       /\ IF r.result = "True"
          THEN /\ apc' = "loaded"
               /\ UNCHANGED a_exit
          ELSE /\ apc' = "exited"
               /\ a_exit' = 1
    /\ UNCHANGED <<cvars, fs, stats>>

\* Lines 223-228: print_summary (basic_stats); the plots are skipped (--no-plots)
AnalyzerSummary ==
    /\ apc = "loaded"
    /\ stats' = basic_stats(df)
    /\ apc' = "exited"
    /\ a_exit' = 0
    /\ UNCHANGED <<cvars, fs, df, load_result, load_error>>

(* ------------------------- files found on disk ------------------------ *)
SeqCells == {None} \cup {Some(s) : s \in 0..MaxFileSeq}

RssiCells == {None, Some(-50)}

TimestampModes == {"nocolumn", "parseable", "unparseable"}

\* Row i of a table: its seq and rssi cells, and its timestamp text.
FileRow(i, s, r, mode) ==
    LET dom == (IF s # None THEN {"seq"} ELSE {})
               \cup (IF r # None THEN {"rssi"} ELSE {})
               \cup (IF mode # "nocolumn" THEN {"timestamp"} ELSE {})
    IN [k \in dom |->
          CASE k = "seq" -> s[1]
            [] k = "rssi" -> r[1]
            [] OTHER -> IF mode = "unparseable" /\ i = 1 THEN RawText ELSE IsoText(i)]

FileColumns(hasSeq, mode) ==
    {"rssi"} \cup (IF hasSeq THEN {"seq"} ELSE {})
             \cup (IF mode # "nocolumn" THEN {"timestamp"} ELSE {})

\* The spec's example: sequence values 0, 1, 2, 4, 5.
ExampleSeq == <<0, 1, 2, 4, 5>>

ExampleFile ==
    [kind |-> "csv", columns |-> FileColumns(TRUE, "parseable"),
     rows |-> [i \in 1..Len(ExampleSeq) |->
                 FileRow(i, Some(ExampleSeq[i]), Some(-50), "parseable")]]

\* A table of n rows with the given seq and rssi cells.
FileTable(n, ss, rs, hasSeq, mode) ==
    [kind |-> "csv", columns |-> FileColumns(hasSeq, mode),
     rows |-> [i \in 1..n |-> FileRow(i, ss[i], rs[i], mode)]]

\* The files an analyzer run may find at its input path: none, one that is no
\* table, the example, or any table within the bounds (a table without a seq
\* column has no seq cell).
FoundFile(file) ==
    \/ file \in {NoFile, [kind |-> "garbage"], ExampleFile}
    \/ \E n \in 0..MaxRows : \E ss \in [1..n -> SeqCells] :
       \E rs \in [1..n -> RssiCells] : \E hasSeq \in BOOLEAN :
       \E mode \in TimestampModes :
          /\ hasSeq \/ \A i \in 1..n : ss[i] = None
          /\ file = FileTable(n, ss, rs, hasSeq, mode)

(* --------------------------- specification ---------------------------- *)
InitState ==
    /\ exit_code = -1
    /\ port = "present"
    /\ serial_conn = "none"
    /\ data_buffer = <<>>
    /\ pc = "idle"
    /\ reason = "none"
    /\ duration = None
    /\ max_samples = None
    /\ start_time = 0
    /\ sample_count = 0
    /\ elapsed = 0
    /\ returned = <<>>
    /\ calls = 0
    /\ base = 0
    /\ arrived = <<>>
    /\ save_result = "none"
    /\ now = 0
    /\ apc = "start"
    /\ df = NoFrame
    /\ load_result = "none"
    /\ load_error = "none"
    /\ stats = NoStats
    /\ a_exit = -1

\* One collection session, whatever the driver.
Session ==
    \/ CheckTermination
    \/ ReadLine
    \/ CountSample
    \/ Interrupt
    \/ Unplug

\* The commands: the collector command writing a fresh output path, or the
\* analyzer command on a file it finds.
Init ==
    /\ \/ mainpc = "start" /\ fs = NoFile
       \/ mainpc = "off" /\ FoundFile(fs)
    /\ InitState

Next ==
    \/ MainConnect
    \/ MainCollect
    \/ MainFinish
    \/ MainFail
    \/ Session
    \/ AnalyzerLoad
    \/ AnalyzerSummary

Spec == Init /\ [][Next]_vars

\* A readline() during which the clock moves on.
TickingRead == ReadLine /\ now' > now

\* The command under the scheduling the loop of lines 94-119 has: a running
\* loop takes its next step (the check, the read, which returns within its
\* timeout, the increment), and time does not stand still over the reads for
\* as long as the clock stays below MaxTime.  Ctrl+C and the unplugging of the
\* device may or may not happen.
SpecLive ==
    /\ Spec
    /\ WF_vars(CheckTermination)
    /\ WF_vars(ReadLine)
    /\ WF_vars(CountSample)
    /\ SF_vars(TickingRead)

\* The collector object used as a library, its methods called in any order.
InitLib ==
    /\ mainpc = "lib"
    /\ fs = NoFile
    /\ InitState

NextLib ==
    \/ LibReturn
    \/ LibConnect
    \/ LibDisconnect
    \/ LibCollect
    \/ LibSave
    \/ LibExit
    \/ Session
    \/ AnalyzerLoad
    \/ AnalyzerSummary

SpecLib == InitLib /\ [][NextLib]_vars

(* ------------------------------- claims ------------------------------- *)
\* The two kinds of Sample of the data model.
Measurement(sample) == DOMAIN sample \cap {"seq", "rssi", "lat_us"} # {}

ErrorSample(sample) == "error" \in DOMAIN sample /\ ~Measurement(sample)

WellFormed(sample) ==
    "timestamp" \in DOMAIN sample /\ (ErrorSample(sample) \/ Measurement(sample))

C2_AbortKeepsBuffer ==
    /\ (pc = "aborted") = (reason = "interrupt")
    /\ pc \in {"aborted", "completed"} => returned = arrived

C2_Witness ==
    /\ pc = "aborted"
    /\ Len(returned) = 2
    /\ returned[1] # returned[2]
    /\ sample_count = 1

\* C3: no line received from the source makes collect_data raise: a session
\* ends by raising only when the transport fails.
C3_DecodeNeverRaises ==
    pc = "raised" => reason \in {"SerialException", "RuntimeError"}

\* C4: a session that completes on its duration limit D does so at an elapsed
\* time >= D and < D + one read timeout.
C4_DurationBound ==
    (pc = "completed" /\ reason = "duration") =>
        /\ elapsed >= duration[1]
        /\ elapsed < duration[1] + ReadTimeout

C4_Witness ==
    /\ pc = "completed"
    /\ reason = "duration"
    /\ elapsed > duration[1]
    /\ data_buffer # <<>>

\* C5: for a table with a seq column, packet loss is
\* max(0, (expected - actual) / expected * 100) with expected = max - min + 1
\* over the non-missing seq values and actual their number, 0 when there is
\* none; it is a function of the seq column alone; 0,1,2,4,5 gives 100/6 and a
\* single value gives 0.
SeqRows(frame) == {i \in 1..Len(frame.rows) : "seq" \in DOMAIN frame.rows[i]}

SeqValues(frame) == {frame.rows[i]["seq"] : i \in SeqRows(frame)}

Highest(S) == CHOOSE x \in S : \A y \in S : y <= x

Lowest(S) == CHOOSE x \in S : \A y \in S : x <= y

C5_PacketLossFormula ==
    (apc = "exited" /\ a_exit = 0 /\ "seq" \in df.columns) =>
        LET loss == stats.packet_loss
            actual == Cardinality(SeqRows(df))
            expected == IF SeqValues(df) = {} THEN 0
                        ELSE Highest(SeqValues(df)) - Lowest(SeqValues(df)) + 1
        IN /\ loss.den > 0
           /\ IF expected <= 0 \/ expected <= actual
              THEN loss.num = 0
              ELSE loss.num * expected = (expected - actual) * 100 * loss.den
           /\ SeqValues(df) = {0, 1, 2, 4, 5} /\ actual = 5 => loss.num * 6 = 100 * loss.den
           /\ Cardinality(SeqValues(df)) = 1 /\ actual = 1 => loss.num = 0

C5_Witness ==
    /\ apc = "exited"
    /\ a_exit = 0
    /\ dropna(df.rows, "seq") = ExampleSeq
    /\ stats.packet_loss.num * 6 = 100 * stats.packet_loss.den

\* C6: save_to_csv with no Samples returns False and creates no file, and a
\* later load of that path fails on the missing file, with no table loaded.
C6_EmptySaveWritesNothing ==
    /\ (data_buffer = <<>> /\ save_result # "none") =>
          save_result = "False" /\ fs = NoFile
    /\ (fs = NoFile /\ apc = "exited") =>
          /\ load_result = "False"
          /\ load_error = "FileNotFoundError"
          /\ df = NoFrame
          /\ stats = NoStats
          /\ a_exit = 1

C6_Witness ==
    /\ data_buffer = <<>>
    /\ save_result = "False"
    /\ apc = "exited"
    /\ load_error = "FileNotFoundError"

\* C7 (as stated): the collector command exits with 1 when the connection
\* cannot be established and with 0 on every other run.  Runs in which a line
\* makes the decoder raise (C3) are left aside here: the statement fails
\* without them, on a transport that fails during a read.
C7_ExitOneOnlyOnConnectFailure ==
    (mainpc = "exited" /\ reason # "TypeError") =>
        exit_code = (IF serial_conn = "none" THEN 1 ELSE 0)

\* C7 (amended): the collector command exits with 1 when the connection cannot
\* be established or when collect_data raises (a read on the transport fails,
\* or a line makes the decoder raise), and with 0 on every other run, also one
\* that collected no sample.
C7_ExitCode ==
    mainpc = "exited" =>
        exit_code = (IF serial_conn = "none" \/ pc = "raised" THEN 1 ELSE 0)

C7_Witness ==
    /\ mainpc = "exited"
    /\ exit_code = 0
    /\ data_buffer = <<>>
    /\ pc = "completed"

\* C8: every buffered Sample has a timestamp and is an error sample (error,
\* and none of seq, rssi, lat_us) or a measurement sample (at least one of
\* seq, rssi, lat_us).
C8_SampleInvariant ==
    \A i \in 1..Len(data_buffer) : WellFormed(data_buffer[i])

\* C9: loading a well-formed file succeeds even when a timestamp in it does
\* not parse: the table is kept with the raw text and the load is not reported
\* as failed.
C9_BadTimestampStillLoads ==
    (apc # "start" /\ fs.kind = "csv") =>
        /\ load_result = "True"
        /\ df # NoFrame

\* C10: whenever a read is attempted, the termination check before it found
\* neither limit reached, a configured limit of 0 included: elapsed < duration
\* if a duration is configured, sample_count < max_samples if a sample limit is.
C10_NoReadPastALimit ==
    pc = "read" =>
        /\ duration # None => now - start_time < duration[1]
        /\ max_samples # None => sample_count < max_samples[1]

\* C11: an iteration that yields no Sample (a read timeout, an empty line, a
\* truncated line) leaves the buffer and sample_count as they were and the
\* session Running; the buffer changes only by one Sample being appended, and
\* an append is always followed by sample_count going up by one.
C11_AppendAndCountTogether ==
    [][/\ (pc = "read" /\ pc' = "check") =>
             /\ data_buffer' = data_buffer
             /\ sample_count' = sample_count
       /\ data_buffer' # data_buffer =>
             /\ Len(data_buffer') = Len(data_buffer) + 1
             /\ SubSeq(data_buffer', 1, Len(data_buffer)) = data_buffer
             /\ pc' = "count"
       /\ (pc = "count" /\ pc' # "count") =>
             /\ sample_count' = sample_count + 1
             /\ pc' = "check"]_vars

\* C12: a session with a duration limit configured (0 included) eventually
\* leaves Running, whatever lines the source delivers and whether or not a
\* sample limit is set too.
C12_DurationLimitEndsSession ==
    (Running /\ duration # None) ~> ~Running

\* The same for the limits the code does act on, those of at least one second.
C12_PositiveDurationEnds ==
    (Running /\ duration # None /\ duration # Some(0)) ~> ~Running

\* C13: a read on a line source that is gone ends the session by raising (the
\* loop does not handle it, collect_data returns nothing); the command then
\* closes the connection, exits with code 1 and writes no file, whatever the
\* buffer holds.
C13_TransportFailureLosesBuffer ==
    reason = "SerialException" =>
        /\ pc = "raised"
        /\ port = "absent"
        /\ returned = <<>>
        /\ fs = NoFile
        /\ save_result = "none"
        /\ mainpc = "exited" =>
              /\ exit_code = 1
              /\ serial_conn = "closed"

C13_Witness ==
    /\ reason = "SerialException"
    /\ mainpc = "exited"
    /\ exit_code = 1
    /\ data_buffer # <<>>
    /\ fs = NoFile

\* C14: no step of any operation (collect_data, save_to_csv with its
\* to_dataframe, connect, disconnect) removes or changes a Sample of the
\* buffer, and each list collect_data returns extends the list returned before;
\* every collect_data call starts its sample_count at 0, so a call that ends on
\* its sample limit N has counted N Samples of its own and returns the
\* Samples the buffer held before the call followed by those N.
IsPrefix(s, t) == Len(s) <= Len(t) /\ SubSeq(t, 1, Len(s)) = s

C14_BufferOnlyGrows ==
    [][/\ IsPrefix(data_buffer, data_buffer')
       /\ IsPrefix(returned, returned')
       /\ (pc = "idle" /\ pc' = "check") =>
             /\ sample_count' = 0
             /\ base' = Len(data_buffer)
             /\ data_buffer' = data_buffer
       /\ (pc = "check" /\ pc' = "completed" /\ reason' = "samples") =>
             /\ sample_count = max_samples[1]
             /\ returned' = data_buffer
             /\ Len(returned') = base + max_samples[1]]_vars

C14_Witness ==
    /\ calls = 2
    /\ pc = "completed"
    /\ reason = "samples"
    /\ max_samples = Some(1)
    /\ base = 1
    /\ Len(returned) = 2
    /\ fs # NoFile

====
